---- MODULE Spec2Model ----
(***************************************************************************)
(* A model of the filesystem parser of js-framework (FsParser, with the    *)
(* regex helpers it compiles its rule lists with) and of the JavaScript    *)
(* run-to-completion semantics its async methods execute under.            *)
(*                                                                         *)
(* A JavaScript string is a sequence of one-character strings, so that     *)
(* escaping, compiling and matching are computed character by character.   *)
(***************************************************************************)
EXTENDS Naturals, Sequences, FiniteSets, TLC

(***************************************************************************)
(* JavaScript values that can appear in the options object.                *)
(***************************************************************************)
Undef == [t |-> "undefined", s |-> <<>>, l |-> <<>>, b |-> FALSE]

JStr(str) == [t |-> "string", s |-> str, l |-> <<>>, b |-> FALSE]

\* a number, carried with its decimal text (what String(n) yields)
JNum(digits) == [t |-> "number", s |-> digits, l |-> <<>>, b |-> FALSE]

JArr(items) == [t |-> "array", s |-> <<>>, l |-> items, b |-> FALSE]

JBool(v) == [t |-> "boolean", s |-> <<>>, l |-> <<>>, b |-> v]

\* ToBoolean, as used by  if (opts[item])
Truthy(v) ==
    CASE v.t = "undefined" -> FALSE
      [] v.t = "string" -> v.s # <<>>
      [] v.t = "number" -> v.s # <<"0">>
      [] v.t = "boolean" -> v.b
      [] OTHER -> TRUE

\* p[0] of a fragment: a character, or "undefined" (empty string, number)
CharAt0(p) == IF p.t = "string" /\ Len(p.s) > 0 THEN p.s[1] ELSE "undefined"

sep == "/"

(***************************************************************************)
(* String helpers.                                                         *)
(***************************************************************************)
Drop(str, n) == SubSeq(str, n + 1, Len(str))

Take(str, n) == SubSeq(str, 1, n)

\* case folding of the i flag, on the alphabet of the model
Fold(c) == CASE c = "A" -> "a" [] c = "B" -> "b" [] OTHER -> c

\* String.prototype.replace(pattern, '') with a string pattern: the first
\* occurrence of pattern is removed
\* the least and the greatest of a set of positions, 0 when there is none
Least(hits) == IF hits = {} THEN 0 ELSE CHOOSE i \in hits : \A j \in hits : i <= j

Greatest(hits) == IF hits = {} THEN 0 ELSE CHOOSE i \in hits : \A j \in hits : j <= i

IndexOf(str, pat) ==
    Least({i \in 1..(Len(str) + 1) :
              /\ i + Len(pat) - 1 <= Len(str)
              /\ SubSeq(str, i, i + Len(pat) - 1) = pat})

\* str without the n characters at position i, str itself when i is 0
CutAt(str, i, n) == IF i = 0 THEN str ELSE Take(str, i - 1) \o Drop(str, i + n - 1)

replaceFirst(str, pat) == CutAt(str, IndexOf(str, pat), Len(pat))

LastIndexOf(str, c) == Greatest({i \in 1..Len(str) : str[i] = c})

\* path.basename: the part after the last separator
basename(p) == Drop(p, LastIndexOf(p, sep))

\* path.extname: from the last dot of the basename, "" when there is none or
\* when the basename only starts with it
FromDot(base, i) == IF i <= 1 THEN <<>> ELSE Drop(base, i - 1)

ExtOf(base) == FromDot(base, LastIndexOf(base, "."))

extname(p) == ExtOf(basename(p))

\* path.join(dir, entry) for a directory path and an entry name without
\* separators: one separator between them
join(dir, entry) ==
    IF Len(dir) > 0 /\ dir[Len(dir)] = sep THEN dir \o entry
    ELSE dir \o <<sep>> \o entry

(***************************************************************************)
(* regex.js                                                                *)
(***************************************************************************)
MetaChars == {"-", "/", "\\", "^", "$", "*", "+", "?", ".", "(", ")", "|",
              "[", "]", "{", "}"}

\* a mutant of the escaped class: the dot is left out of it
EscapedNoDot == MetaChars \ {"."}

\* the class of  /[-\/\\^$*+?.()|[\]{}]/g
Escaped == MetaChars

RECURSIVE escapeChars(_)
escapeChars(str) ==
    IF str = <<>> THEN <<>>
    ELSE (IF Head(str) \in Escaped THEN <<"\\", Head(str)>> ELSE <<Head(str)>>)
         \o escapeChars(Tail(str))

\* a mutant of regexEscape: the typeof guard is missing
regexEscapeNoGuard(s) == [threw |-> FALSE, out |-> escapeChars(s.s)]

regexEscape(s) ==
    IF s.t # "string" THEN [threw |-> TRUE, out |-> <<>>]
    ELSE [threw |-> FALSE, out |-> escapeChars(s.s)]

\* one pass of the forEach bodies: ap, then the escaped fragment, with a bar
\* between them when ap is not empty
appendAlt(acc, p) ==
    LET e == regexEscape(p)
    IN IF acc.threw \/ e.threw THEN [threw |-> TRUE, ap |-> <<>>]
       ELSE [threw |-> FALSE,
             ap |-> (IF acc.ap # <<>> THEN acc.ap \o <<"|">> ELSE <<>>) \o e.out]

extFragment(p) == IF CharAt0(p) # "." THEN JStr(<<".">> \o p.s) ELSE p

fileFragment(p) == IF CharAt0(p) = sep THEN JStr(Drop(p.s, 1)) ELSE p

pathFragment(p) == IF CharAt0(p) # sep THEN JStr(<<sep>> \o p.s) ELSE p

RECURSIVE sanitizeExtFrom(_, _)
sanitizeExtFrom(s, acc) ==
    IF s = <<>> THEN acc
    ELSE sanitizeExtFrom(Tail(s), appendAlt(acc, extFragment(Head(s))))

sanitizeExtRegex(s) == sanitizeExtFrom(s, [threw |-> FALSE, ap |-> <<>>])

RECURSIVE sanitizeFileFrom(_, _)
sanitizeFileFrom(s, acc) ==
    IF s = <<>> THEN acc
    ELSE sanitizeFileFrom(Tail(s), appendAlt(acc, fileFragment(Head(s))))

sanitizeFileRegex(s) == sanitizeFileFrom(s, [threw |-> FALSE, ap |-> <<>>])

RECURSIVE sanitizePathFrom(_, _)
sanitizePathFrom(s, acc) ==
    IF s = <<>> THEN acc
    ELSE sanitizePathFrom(Tail(s), appendAlt(acc, pathFragment(Head(s))))

sanitizePathRegex(s) == sanitizePathFrom(s, [threw |-> FALSE, ap |-> <<>>])

(***************************************************************************)
(* new RegExp("^(" + ap + ")", 'i') and RegExp.prototype.exec, for the      *)
(* patterns the sanitizers can produce: alternatives separated by bars,    *)
(* made of escaped characters, plain characters and dots.                  *)
(***************************************************************************)
\* a mutant of Flags: the matchers are compiled global as well
FlagsGlobal == {"i", "g"}

\* the flags every matcher is compiled with
Flags == {"i"}

NoRegex == [def |-> FALSE, src |-> <<>>, lastIndex |-> 0]

\* a new matcher: its lastIndex is 0
RegExp(ap) == [def |-> TRUE, src |-> <<"^", "(">> \o ap \o <<")">>, lastIndex |-> 0]

\* the pattern between "^(" and ")" as atoms
RECURSIVE Atoms(_)
Atoms(p) ==
    IF p = <<>> THEN <<>>
    ELSE IF Head(p) = "\\" /\ Len(p) >= 2
         THEN <<[k |-> "lit", c |-> p[2]]>> \o Atoms(Drop(p, 2))
    ELSE IF Head(p) = "|" THEN <<[k |-> "bar", c |-> "|"]>> \o Atoms(Tail(p))
    ELSE IF Head(p) = "." THEN <<[k |-> "any", c |-> "."]>> \o Atoms(Tail(p))
    ELSE <<[k |-> "lit", c |-> Head(p)]>> \o Atoms(Tail(p))

\* the alternatives, in order
RECURSIVE Alternatives(_, _)
Alternatives(atoms, cur) ==
    IF atoms = <<>> THEN <<cur>>
    ELSE IF Head(atoms).k = "bar" THEN <<cur>> \o Alternatives(Tail(atoms), <<>>)
    ELSE Alternatives(Tail(atoms), Append(cur, Head(atoms)))

\* two characters are the same to the matcher: case is folded under the i flag
SameChar(c, d) == IF "i" \in Flags THEN Fold(c) = Fold(d) ELSE c = d

AltMatches(alt, str) ==
    /\ Len(alt) <= Len(str)
    /\ \A i \in 1..Len(alt) : alt[i].k = "any" \/ SameChar(alt[i].c, str[i])

\* exec: null, or result[0], the text the first matching alternative matched,
\* and the matcher's lastIndex afterwards.  The search starts at 0, or at
\* lastIndex under the g flag, and the ^ of the pattern matches at 0 only;
\* lastIndex is written under the g flag only: the end of the match, or 0
ExecResult(re, str, alts, i) ==
    IF i = 0
    THEN [null |-> TRUE, m |-> <<>>,
          lastIndex |-> IF "g" \in Flags THEN 0 ELSE re.lastIndex]
    ELSE [null |-> FALSE, m |-> Take(str, Len(alts[i])),
          lastIndex |-> IF "g" \in Flags THEN Len(alts[i]) ELSE re.lastIndex]

\* the first alternative that matches str from position start, 0 for none
FirstMatch(alts, str, start) ==
    IF start > 0 THEN 0 ELSE Least({i \in 1..Len(alts) : AltMatches(alts[i], str)})

ExecAlts(re, str, alts) ==
    ExecResult(re, str, alts,
               FirstMatch(alts, str, IF "g" \in Flags THEN re.lastIndex ELSE 0))

exec(re, str) ==
    ExecAlts(re, str, Alternatives(Atoms(SubSeq(re.src, 3, Len(re.src) - 1)), <<>>))

(***************************************************************************)
(* FsParser: the fields, the filesystem it reads and the JavaScript job    *)
(* machinery its async methods run on.                                     *)
(***************************************************************************)
VARIABLES
    startPath,   \* #startPath
    absPath,     \* #absPath
    opts,        \* #opts: option name -> value
    regex,       \* #regex: category -> compiled matcher or NoRegex
    log,         \* #log
    results,     \* #results
    phase,       \* "new" before the constructor ran, then "ready" or "threw"
    fsNodes,     \* the directory tree: a set of [path, kind]
    failList,    \* directories whose readdirSync throws
    failStat,    \* paths whose statSync throws
    stack,       \* the _parseDir invocations on the call stack, innermost last
    inv,         \* directory -> state of the promise of its _parseDir call
    pall,        \* directory -> the Promise.all of its _parseDir call
    jobs,        \* the promise job queue
    parseState,  \* the promise parse() returned
    handed,      \* what the caller of parse() received
    unhandled,   \* directories whose rejected _parseDir promise nobody handles
    calls,       \* number of calls the caller has made
    lastCall,    \* the last direct call and what it returned
    order,       \* directory -> the order readdirSync last returned its names in
    listed,      \* directories listed in the current parse()
    touched,     \* paths stat-ed or evaluated in the current parse()
    denied,      \* directories doWeProcessDir denied in the current parse()
    runLog,      \* length of the log when the current parse() began
    prev,        \* the parse() before the current one and the log it was called on
    cancelRequested  \* the caller has asked for the current parse() to stop

\* NunjucksShortcode: the fields of one shortcode and the promises, the
\* reactions and the completion callbacks of its run(...) calls
VARIABLES
    tags,         \* this.tags
    paired,       \* this.paired
    isasync,      \* this.isasync
    safe,         \* this.safe: "unset" until run(...) stored the filter
    overridden,   \* the shortcode is a subclass that overrides the render methods
    runs,         \* number of run(...) calls made
    renderP,      \* run -> the promise renderAsync / renderAsyncPaired returned
    thenP,        \* run -> the promise .then(...) returned
    catchP,       \* run -> the promise .catch(...) returned
    resolveCalls, \* run -> the calls of the completion callback, in order
    reactions,    \* the promise job queue of the shortcode's reactions
    rejections,   \* runs whose rejected .catch(...) promise nobody handles
    returned      \* run -> what a run(...) without isasync returned or threw

scVars == <<tags, paired, isasync, safe, overridden, runs, renderP, thenP, catchP,
            resolveCalls, reactions, rejections, returned>>

vars == <<startPath, absPath, opts, regex, log, results, phase, fsNodes,
          failList, failStat, stack, inv, pall, jobs, parseState, handed,
          unhandled, calls, lastCall, order, listed, touched, denied, runLog,
          prev, cancelRequested, tags, paired, isasync, safe, overridden, runs,
          renderP, thenP, catchP, resolveCalls, reactions, rejections, returned>>

MaxCalls == 2

PathItems == {"allowPaths", "ignorePaths"}

FileItems == {"onlyFiles", "allowFiles", "ignoreFiles", "ignoreFilesFirst", "ignoreDirs"}

Categories == PathItems \cup FileItems \cup {"ignoreExts"}

OptionNames == Categories \cup {"ignoreFilesByDefault", "ignorePathsByDefault"}

\* arr.makeArray: a scalar becomes a one-element array, an array is kept
makeArray(v) == IF v.t = "array" THEN v ELSE JArr(<<v>>)

\* the sanitizer _configureRegex applies to a category
sanitizeFor(item, list) ==
    IF item \in PathItems THEN sanitizePathRegex(list)
    ELSE IF item \in FileItems THEN sanitizeFileRegex(list)
    ELSE sanitizeExtRegex(list)

\* _configureRegex on the options o: whether it threw, the matchers, and the
\* options with the lists it wrapped
_configureRegex(o) ==
    LET san == [item \in Categories |-> sanitizeFor(item, makeArray(o[item]).l)]
    IN [threw |-> \E item \in Categories : Truthy(o[item]) /\ san[item].threw,
        regex |-> [item \in Categories |->
                     IF Truthy(o[item]) /\ ~san[item].threw /\ san[item].ap # <<>>
                     THEN RegExp(san[item].ap) ELSE NoRegex],
        opts |-> [k \in OptionNames |->
                     IF k \in Categories /\ Truthy(o[k]) THEN makeArray(o[k]) ELSE o[k]]]

\* a mutant of _logMsg: the record is put in front (unshift for push)
_logMsgUnshift(lg, func, tpl, arg) == <<[func |-> func, tpl |-> tpl, arg |-> arg]>> \o lg

\* _logMsg: the record pushed on #log; the message is a template and the
\* text interpolated into it
_logMsg(lg, func, tpl, arg) == Append(lg, [func |-> func, tpl |-> tpl, arg |-> arg])

\* filePath.replace(this.#absPath, '') with the separator put in front
WithSep(rel) == IF rel = <<>> \/ rel[1] # sep THEN <<sep>> \o rel ELSE rel

relOf(filePath) == WithSep(replaceFirst(filePath, absPath))

FileFn == "FsParser:_doWeProcessFile"

DirFn == "FsParser:_doWeProcessDir"

\* x === true
IsTrue(v) == v.t = "boolean" /\ v.b

\* a match of the category's matcher on str: exec's result, null when the
\* category has no matcher
matchOf(item, str) ==
    IF regex[item].def THEN exec(regex[item], str)
    ELSE [null |-> TRUE, m |-> <<>>, lastIndex |-> 0]

\* the matchers after those of the chain were asked in order, each about its
\* subject, up to the first that matched
regexAfter(chain, subject) ==
    LET asks == {chain[j] : j \in {i \in 1..Len(chain) :
                    /\ regex[chain[i]].def
                    /\ \A k \in 1..(i - 1) : matchOf(chain[k], subject[k]).null}}
        at(item) == CHOOSE i \in 1..Len(chain) : chain[i] = item
    IN [item \in Categories |->
          IF item \in asks
          THEN [regex[item] EXCEPT !.lastIndex = exec(regex[item], subject[at(item)]).lastIndex]
          ELSE regex[item]]

\* #regex after doWeProcessFile(filePath): onlyFiles alone when it is
\* compiled, else the chain of the other file categories
regexAfterFile(filePath) ==
    LET base == basename(filePath)
    IN IF regex.onlyFiles.def THEN regexAfter(<<"onlyFiles">>, <<base>>)
       ELSE regexAfter(<<"ignoreFilesFirst", "allowFiles", "ignoreFiles", "ignoreExts">>,
                       <<base, base, base, extname(filePath)>>)

\* #regex after doWeProcessDir(filePath, entry)
regexAfterDir(filePath, entry) ==
    regexAfter(<<"allowPaths", "ignorePaths", "ignoreDirs">>,
               <<relOf(filePath), relOf(filePath), entry>>)

\* a mutant of doWeProcessFile: allowFiles is asked before ignoreFilesFirst
doWeProcessFileAllowFirst(filePath, lg) ==
    LET base == basename(filePath)
        l1 == _logMsg(lg, FileFn, "Processing file: ", relOf(filePath))
        only == matchOf("onlyFiles", base)
        first == matchOf("ignoreFilesFirst", base)
        allow == matchOf("allowFiles", base)
        ignore == matchOf("ignoreFiles", base)
        exts == matchOf("ignoreExts", extname(filePath))
    IN IF regex.onlyFiles.def
       THEN [ret |-> ~only.null, log |-> l1]
       ELSE IF ~allow.null
       THEN [ret |-> TRUE, log |-> _logMsg(l1, FileFn, "   => allow file via: ", allow.m)]
       ELSE IF ~first.null \/ ~ignore.null \/ ~exts.null
       THEN [ret |-> FALSE, log |-> l1]
       ELSE [ret |-> ~(Truthy(opts.ignoreFilesByDefault) /\ IsTrue(opts.ignoreFilesByDefault)),
             log |-> l1]

\* a mutant of doWeProcessFile: a basename onlyFiles does not match goes on
\* to the other rules
doWeProcessFileFallThrough(filePath, lg) ==
    LET base == basename(filePath)
        l1 == _logMsg(lg, FileFn, "Processing file: ", relOf(filePath))
        only == matchOf("onlyFiles", base)
        first == matchOf("ignoreFilesFirst", base)
        allow == matchOf("allowFiles", base)
        ignore == matchOf("ignoreFiles", base)
        exts == matchOf("ignoreExts", extname(filePath))
    IN IF ~only.null
       THEN [ret |-> TRUE, log |-> l1]
       ELSE IF ~first.null
       THEN [ret |-> FALSE, log |-> l1]
       ELSE IF ~allow.null
       THEN [ret |-> TRUE, log |-> l1]
       ELSE IF ~ignore.null \/ ~exts.null
       THEN [ret |-> FALSE, log |-> l1]
       ELSE [ret |-> ~(Truthy(opts.ignoreFilesByDefault) /\ IsTrue(opts.ignoreFilesByDefault)),
             log |-> l1]

\* doWeProcessFile(filePath) on the log lg: what it returns and the log after
doWeProcessFile(filePath, lg) ==
    LET rel == relOf(filePath)
        base == basename(filePath)
        ext == extname(filePath)
        l1 == _logMsg(lg, FileFn, "Processing file: ", rel)
        only == matchOf("onlyFiles", base)
        first == matchOf("ignoreFilesFirst", base)
        allow == matchOf("allowFiles", base)
        ignore == matchOf("ignoreFiles", base)
        exts == matchOf("ignoreExts", ext)
    IN IF regex.onlyFiles.def
       THEN IF ~only.null
            THEN [ret |-> TRUE,
                  log |-> _logMsg(l1, FileFn, "   => only file first via: ", only.m)]
            ELSE [ret |-> FALSE, log |-> l1]
       ELSE IF ~first.null
       THEN [ret |-> FALSE,
             log |-> _logMsg(l1, FileFn, "   => ignore file first via: ", first.m)]
       ELSE IF ~allow.null
       THEN [ret |-> TRUE, log |-> _logMsg(l1, FileFn, "   => allow file via: ", allow.m)]
       ELSE IF ~ignore.null
       THEN [ret |-> FALSE, log |-> _logMsg(l1, FileFn, "   => ignore file via: ", ignore.m)]
       ELSE IF ~exts.null
       THEN [ret |-> FALSE,
             log |-> _logMsg(l1, FileFn, "   => ignore file extension via: ", exts.m)]
       ELSE IF Truthy(opts.ignoreFilesByDefault) /\ IsTrue(opts.ignoreFilesByDefault)
       THEN [ret |-> FALSE, log |-> _logMsg(l1, FileFn, "   => ignore file by default", <<>>)]
       ELSE [ret |-> TRUE, log |-> _logMsg(l1, FileFn, "   => allow file by default", <<>>)]

\* a mutant of doWeProcessDir: ignorePaths is asked before allowPaths
doWeProcessDirIgnoreFirst(filePath, entry, lg) ==
    LET rel == relOf(filePath)
        l1 == _logMsg(lg, DirFn, "Processing directory: ", rel)
        allow == matchOf("allowPaths", rel)
        ignore == matchOf("ignorePaths", rel)
        dirs == matchOf("ignoreDirs", entry)
    IN IF ~ignore.null
       THEN [ret |-> FALSE, log |-> _logMsg(l1, DirFn, "   => ignore path via: ", ignore.m)]
       ELSE IF ~allow.null
       THEN [ret |-> TRUE, log |-> _logMsg(l1, DirFn, "   => allow path via: ", allow.m)]
       ELSE IF ~dirs.null
       THEN [ret |-> FALSE, log |-> _logMsg(l1, DirFn, "   => ignore dir via: ", dirs.m)]
       ELSE IF Truthy(opts.ignorePathsByDefault) /\ IsTrue(opts.ignorePathsByDefault)
       THEN [ret |-> FALSE, log |-> _logMsg(l1, DirFn, "   => ignore dir by default", <<>>)]
       ELSE [ret |-> TRUE, log |-> _logMsg(l1, DirFn, "   => allow dir by default", <<>>)]

\* doWeProcessDir(filePath, entry) on the log lg
doWeProcessDir(filePath, entry, lg) ==
    LET rel == relOf(filePath)
        l1 == _logMsg(lg, DirFn, "Processing directory: ", rel)
        allow == matchOf("allowPaths", rel)
        ignore == matchOf("ignorePaths", rel)
        dirs == matchOf("ignoreDirs", entry)
    IN IF ~allow.null
       THEN [ret |-> TRUE, log |-> _logMsg(l1, DirFn, "   => allow path via: ", allow.m)]
       ELSE IF ~ignore.null
       THEN [ret |-> FALSE, log |-> _logMsg(l1, DirFn, "   => ignore path via: ", ignore.m)]
       ELSE IF ~dirs.null
       THEN [ret |-> FALSE, log |-> _logMsg(l1, DirFn, "   => ignore dir via: ", dirs.m)]
       ELSE IF Truthy(opts.ignorePathsByDefault) /\ IsTrue(opts.ignorePathsByDefault)
       THEN [ret |-> FALSE, log |-> _logMsg(l1, DirFn, "   => ignore dir by default", <<>>)]
       ELSE [ret |-> TRUE, log |-> _logMsg(l1, DirFn, "   => allow dir by default", <<>>)]

\* file.split('/'): the pieces between the separators
RECURSIVE split(_, _)
split(str, cur) ==
    IF str = <<>> THEN <<cur>>
    ELSE IF Head(str) = sep THEN <<cur>> \o split(Tail(str), <<>>)
    ELSE split(Tail(str), Append(cur, Head(str)))

\* Array.prototype.pop: the array without its last element, and that element
\* (undefined when the array is empty)
pop(a) ==
    IF a = <<>> THEN [rest |-> <<>>, last |-> Undef]
    ELSE [rest |-> Take(a, Len(a) - 1), last |-> JStr(a[Len(a)])]

\* path.join(a, b) on JavaScript values: it validates that every argument is
\* a string and throws a TypeError otherwise
pathJoin(a, b) ==
    IF a.t # "string" \/ b.t # "string" THEN [threw |-> TRUE, out |-> <<>>]
    ELSE [threw |-> FALSE, out |-> join(a.s, b.s)]

\* freeformCheckFile(file) on the log lg; sp is an array when it reaches
\* path.join
freeformCheckFile(file, lg) ==
    LET sp0 == split(file, <<>>)
        sp1 == pop(sp0).rest
        entry == pop(sp1).last
        sp == JArr([i \in 1..Len(pop(sp1).rest) |-> JStr(pop(sp1).rest[i])])
        joined == pathJoin(sp, entry)
        d == doWeProcessDir(joined.out, entry.s, lg)
        f == doWeProcessFile(file, d.log)
    IN IF joined.threw THEN [threw |-> TRUE, ret |-> FALSE, log |-> lg, fileEvaluated |-> FALSE]
       ELSE IF ~d.ret
       THEN [threw |-> FALSE, ret |-> FALSE, log |-> d.log, fileEvaluated |-> FALSE]
       ELSE IF ~f.ret
       THEN [threw |-> FALSE, ret |-> FALSE, log |-> f.log, fileEvaluated |-> TRUE]
       ELSE [threw |-> FALSE, ret |-> TRUE, log |-> f.log, fileEvaluated |-> TRUE]

(***************************************************************************)
(* The filesystem.                                                         *)
(***************************************************************************)
parentOf(p) == Take(p, LastIndexOf(p, sep) - 1)

childrenOf(dir) == {n \in fsNodes : parentOf(n.path) = dir}

kindOf(p) == (CHOOSE n \in fsNodes : n.path = p).kind

DirPaths == {startPath} \cup {n.path : n \in {m \in fsNodes : m.kind = "dir"}}

\* the orders readdirSync can return the names of a directory in
Orderings(S) ==
    {f \in [1..Cardinality(S) -> S] : \A i, j \in 1..Cardinality(S) : f[i] = f[j] => i = j}

\* the names readdirSync(dir) returns
namesOf(dir) == {basename(n.path) : n \in childrenOf(dir)}

(***************************************************************************)
(* _parseDir, one step per statement executed on the call stack, and the   *)
(* promise jobs that run when the stack is empty.                          *)
(***************************************************************************)
Frame(dir) == [dir |-> dir, listed |-> FALSE, todo |-> <<>>, elems |-> <<>>]

Top == stack[Len(stack)]

Below == Take(stack, Len(stack) - 1)

ElementJob(d, rej) == [k |-> "element", d |-> d, rej |-> rej]

ResumeJob(d, rej) == [k |-> "resume", d |-> d, rej |-> rej]

ParseResumeJob(rej) == [k |-> "parseResume", d |-> <<>>, rej |-> rej]

Idle == parseState \in {"idle", "resolved", "rejected"}

\* a mutant of afterParseDir: parse() does not await the promise and returns
afterParseDirNoAwait(p) == [state |-> "queued", job |-> <<ParseResumeJob(FALSE)>>]

\* await this._parseDir(this.#startPath) in parse(), when the call has
\* returned its promise in state p: a pending promise gets parse()'s
\* continuation as a reaction, a settled one queues it at once
afterParseDir(p) ==
    IF p = "pending" THEN [state |-> "awaiting", job |-> <<>>]
    ELSE [state |-> "queued", job |-> <<ParseResumeJob(p = "rejected")>>]

\* a mutant of freshResults: the array of the run before is kept
freshResultsKept(res) == res

\* this.#results = []
freshResults(res) == <<>>

\* parse(): the result array is replaced and _parseDir(startPath) is called
parse ==
    /\ phase = "ready" /\ Idle /\ calls < MaxCalls
    /\ results' = freshResults(results)
    /\ prev' = [done |-> parseState = "resolved", handed |-> handed, order |-> order,
                log |-> log]
    /\ cancelRequested' = FALSE
    /\ stack' = <<Frame(startPath)>>
    /\ inv' = [d \in DirPaths |-> IF d = startPath THEN "running" ELSE "none"]
    /\ pall' = [d \in DirPaths |-> [remaining |-> 0, st |-> "none"]]
    /\ parseState' = "sync"
    /\ handed' = <<>>
    /\ unhandled' = {}
    /\ calls' = calls + 1
    /\ lastCall' = [op |-> "parse", file |-> startPath, entry |-> <<>>, ret |-> FALSE,
                    threw |-> FALSE, fileEvaluated |-> FALSE]
    /\ touched' = {} /\ listed' = {} /\ denied' = {} /\ runLog' = Len(log)
    /\ UNCHANGED <<scVars, startPath, absPath, opts, regex, log, phase, fsNodes, order,
                   failList, failStat, jobs>>

\* the promise of the _parseDir call of dir settles or suspends with state p
\* while the call is on the stack: control returns to its caller
returnFrom(dir, p) ==
    /\ stack' = Below
    /\ inv' = [inv EXCEPT ![dir] = p]
    /\ IF Len(stack) = 1
       THEN /\ parseState' = afterParseDir(IF p = "awaiting" THEN "pending" ELSE p).state
            /\ unhandled' = unhandled
       ELSE /\ parseState' = parseState
            /\ unhandled' = IF p = "rejected" THEN unhandled \cup {dir} ELSE unhandled

jobsOnReturn(p) ==
    IF Len(stack) = 1 THEN afterParseDir(IF p = "awaiting" THEN "pending" ELSE p).job
    ELSE <<>>

\* let entries = fs.readdirSync(dir): it throws, or returns the names of the
\* directory in some order
readdirSync ==
    /\ stack # <<>> /\ ~Top.listed
    /\ IF Top.dir \in failList
       THEN /\ returnFrom(Top.dir, "rejected")
            /\ jobs' = jobs \o jobsOnReturn("rejected")
            /\ order' = order
       ELSE /\ \E entries \in Orderings(namesOf(Top.dir)) :
                 /\ stack' = Append(Below, [Top EXCEPT !.listed = TRUE, !.todo = entries])
                 /\ order' = [order EXCEPT ![Top.dir] = entries]
            /\ UNCHANGED <<inv, parseState, unhandled, jobs>>
    /\ listed' = listed \cup {Top.dir}
    /\ UNCHANGED <<scVars, startPath, absPath, opts, regex, log, results, phase, fsNodes,
                   failList, failStat, pall, handed, calls, lastCall, touched, denied,
                   runLog, prev, cancelRequested>>

\* a mutant of fileEntry: the path is pushed whatever doWeProcessFile says
fileEntryAlways(filePath, lg, res) ==
    [log |-> doWeProcessFile(filePath, lg).log, results |-> Append(res, filePath)]

\* a mutant of fileEntry: the callback runs a second time for the entry
fileEntryTwice(filePath, lg, res) ==
    LET r1 == doWeProcessFile(filePath, lg)
        r2 == doWeProcessFile(filePath, r1.log)
    IN [log |-> r2.log,
        results |-> IF r1.ret THEN Append(Append(res, filePath), filePath) ELSE res]

\* stats.isFile() && this.doWeProcessFile(filePath): this.#results.push(filePath)
fileEntry(filePath, lg, res) ==
    LET r == doWeProcessFile(filePath, lg)
    IN [log |-> r.log, results |-> IF r.ret THEN Append(res, filePath) ELSE res]

\* a mutant of dirEntry: the directory is walked whatever doWeProcessDir says
dirEntryAlways(filePath, entry, lg) ==
    LET r == doWeProcessDir(filePath, entry, lg)
    IN [log |-> r.log, allowed |-> r.ret, descend |-> TRUE]

\* a mutant of dirEntry: no directory is walked
dirEntryNever(filePath, entry, lg) ==
    LET r == doWeProcessDir(filePath, entry, lg)
    IN [log |-> r.log, allowed |-> r.ret, descend |-> FALSE]

\* stats.isDirectory() && this.doWeProcessDir(filePath, entry): this._parseDir(filePath)
dirEntry(filePath, entry, lg) ==
    LET r == doWeProcessDir(filePath, entry, lg)
    IN [log |-> r.log, allowed |-> r.ret, descend |-> r.ret]

\* the callback of entries.map for the next entry, up to its return or to the
\* call of _parseDir it makes; a throw of statSync rejects its promise
mapEntry ==
    /\ stack # <<>> /\ Top.listed /\ Top.todo # <<>>
    /\ LET entry == Head(Top.todo)
           filePath == join(Top.dir, entry)
           rest(rej) == [Top EXCEPT !.todo = Tail(Top.todo), !.elems = Append(Top.elems, rej)]
       IN /\ touched' = touched \cup {filePath}
          /\ IF filePath \in failStat
             THEN /\ stack' = Append(Below, rest(TRUE))
                  /\ UNCHANGED <<log, results, inv, denied, regex>>
             ELSE IF kindOf(filePath) = "file"
             THEN LET r == fileEntry(filePath, log, results)
                  IN /\ log' = r.log
                     /\ results' = r.results
                     /\ regex' = regexAfterFile(filePath)
                     /\ stack' = Append(Below, rest(FALSE))
                     /\ UNCHANGED <<inv, denied>>
             ELSE LET r == dirEntry(filePath, entry, log)
                  IN /\ log' = r.log
                     /\ results' = results
                     /\ regex' = regexAfterDir(filePath, entry)
                     /\ denied' = IF r.allowed THEN denied ELSE denied \cup {filePath}
                     /\ IF r.descend
                        THEN /\ stack' = Append(Append(Below, rest(FALSE)), Frame(filePath))
                             /\ inv' = [inv EXCEPT ![filePath] = "running"]
                        ELSE /\ stack' = Append(Below, rest(FALSE))
                             /\ inv' = inv
    /\ UNCHANGED <<scVars, startPath, absPath, opts, phase, fsNodes, order, failList,
                   failStat, pall, jobs, parseState, handed, unhandled, calls, lastCall,
                   listed, runLog, prev, cancelRequested>>

\* await Promise.all(...): every promise of the array is settled already, so
\* its reaction on the aggregate is queued at once; the empty array's
\* aggregate is fulfilled at once; _parseDir suspends
awaitAll ==
    /\ stack # <<>> /\ Top.listed /\ Top.todo = <<>>
    /\ LET n == Len(Top.elems)
       IN /\ pall' = [pall EXCEPT ![Top.dir] =
                        [remaining |-> n, st |-> IF n = 0 THEN "fulfilled" ELSE "pending"]]
          /\ jobs' = jobs
                     \o (IF n = 0 THEN <<ResumeJob(Top.dir, FALSE)>>
                         ELSE [i \in 1..n |-> ElementJob(Top.dir, Top.elems[i])])
                     \o jobsOnReturn("awaiting")
    /\ returnFrom(Top.dir, "awaiting")
    /\ UNCHANGED <<scVars, startPath, absPath, opts, regex, log, results, phase, fsNodes, order,
                   failList, failStat, handed, calls, lastCall, touched, listed, denied,
                   runLog, prev, cancelRequested>>

\* the next promise job
runJob ==
    /\ stack = <<>> /\ jobs # <<>>
    /\ LET j == Head(jobs)
       IN CASE j.k = "element" ->
                 \* the resolve-element or reject function of Promise.all
                 /\ IF pall[j.d].st # "pending"
                    THEN UNCHANGED pall /\ jobs' = Tail(jobs)
                    ELSE IF j.rej
                    THEN /\ pall' = [pall EXCEPT ![j.d].st = "rejected"]
                         /\ jobs' = Append(Tail(jobs), ResumeJob(j.d, TRUE))
                    ELSE IF pall[j.d].remaining = 1
                    THEN /\ pall' = [pall EXCEPT ![j.d] = [remaining |-> 0, st |-> "fulfilled"]]
                         /\ jobs' = Append(Tail(jobs), ResumeJob(j.d, FALSE))
                    ELSE /\ pall' = [pall EXCEPT ![j.d].remaining = @ - 1]
                         /\ jobs' = Tail(jobs)
                 /\ UNCHANGED <<inv, parseState, handed, unhandled>>
            [] j.k = "resume" ->
                 \* _parseDir resumes after its await and ends
                 /\ inv' = [inv EXCEPT ![j.d] = IF j.rej THEN "rejected" ELSE "fulfilled"]
                 /\ IF j.d = startPath /\ parseState = "awaiting"
                    THEN /\ jobs' = Append(Tail(jobs), ParseResumeJob(j.rej))
                         /\ parseState' = "queued"
                         /\ unhandled' = unhandled
                    ELSE /\ jobs' = Tail(jobs)
                         /\ parseState' = parseState
                         /\ unhandled' = IF j.rej THEN unhandled \cup {j.d} ELSE unhandled
                 /\ UNCHANGED <<pall, handed>>
            [] OTHER ->
                 \* parse() resumes: return this.#results, or the rejection
                 /\ jobs' = Tail(jobs)
                 /\ parseState' = IF j.rej THEN "rejected" ELSE "resolved"
                 /\ handed' = IF j.rej THEN handed ELSE results
                 /\ UNCHANGED <<pall, inv, unhandled>>
    /\ UNCHANGED <<scVars, startPath, absPath, opts, regex, log, results, phase, fsNodes, order,
                   failList, failStat, stack, calls, lastCall, touched, listed, denied,
                   runLog, prev, cancelRequested>>

\* the caller, which holds the pending promise of parse(), asks for the run
\* to stop: its code runs when the stack is empty.  parse() takes no
\* argument and FsParser has no method or field for the request, so nothing
\* of the instance changes
requestCancel ==
    /\ parseState \in {"awaiting", "queued"} /\ stack = <<>>
    /\ ~cancelRequested
    /\ cancelRequested' = TRUE
    /\ UNCHANGED <<scVars, startPath, absPath, opts, regex, log, results, phase, fsNodes,
                   failList, failStat, stack, inv, pall, jobs, parseState, handed,
                   unhandled, calls, lastCall, order, listed, touched, denied, runLog,
                   prev>>

(***************************************************************************)
(* The constructor and the methods a caller invokes directly.              *)
(***************************************************************************)
NoCall == [op |-> "none", file |-> <<>>, entry |-> <<>>, ret |-> FALSE, threw |-> FALSE,
           fileEvaluated |-> FALSE]

\* new FsParser(startPath, absPath, opts): the options are compiled; the
\* constructor throws what _configureRegex throws
constructor ==
    /\ phase = "new"
    /\ LET c == _configureRegex(opts)
       IN /\ phase' = IF c.threw THEN "threw" ELSE "ready"
          /\ regex' = IF c.threw THEN regex ELSE c.regex
          /\ opts' = IF c.threw THEN opts ELSE c.opts
    /\ log' = <<>>
    /\ UNCHANGED <<scVars, startPath, absPath, results, fsNodes, order, failList, failStat,
                   stack, inv, pall, jobs, parseState, handed, unhandled, calls,
                   lastCall, touched, listed, denied, runLog, prev, cancelRequested>>

CanCall == phase = "ready" /\ Idle /\ stack = <<>> /\ jobs = <<>> /\ calls < MaxCalls

callUnchanged ==
    UNCHANGED <<scVars, startPath, absPath, opts, results, phase, fsNodes, order,
                failList, failStat, stack, inv, pall, jobs, parseState, handed,
                unhandled, touched, listed, denied, runLog, prev, cancelRequested>>

\* a direct call of doWeProcessFile(filePath)
callDoWeProcessFile(paths) ==
    /\ CanCall
    /\ \E filePath \in paths :
         LET r == doWeProcessFile(filePath, log)
         IN /\ log' = r.log
            /\ regex' = regexAfterFile(filePath)
            /\ lastCall' = [op |-> "doWeProcessFile", file |-> filePath, entry |-> <<>>,
                            ret |-> r.ret, threw |-> FALSE, fileEvaluated |-> TRUE]
    /\ calls' = calls + 1
    /\ callUnchanged

\* a direct call of doWeProcessDir(filePath, entry)
callDoWeProcessDir(paths) ==
    /\ CanCall
    /\ \E filePath \in paths :
         LET r == doWeProcessDir(filePath, basename(filePath), log)
         IN /\ log' = r.log
            /\ regex' = regexAfterDir(filePath, basename(filePath))
            /\ lastCall' = [op |-> "doWeProcessDir", file |-> filePath,
                            entry |-> basename(filePath), ret |-> r.ret, threw |-> FALSE,
                            fileEvaluated |-> FALSE]
    /\ calls' = calls + 1
    /\ callUnchanged

\* a direct call of freeformCheckFile(file); path.join throws before a
\* matcher is asked
callFreeformCheckFile(paths) ==
    /\ CanCall
    /\ \E file \in paths :
         LET r == freeformCheckFile(file, log)
         IN /\ log' = r.log
            /\ regex' = IF r.threw THEN regex ELSE regexAfterFile(file)
            /\ lastCall' = [op |-> "freeformCheckFile", file |-> file, entry |-> <<>>,
                            ret |-> r.ret, threw |-> r.threw,
                            fileEvaluated |-> r.fileEvaluated]
    /\ calls' = calls + 1
    /\ callUnchanged

(***************************************************************************)
(* The inputs: names, paths, trees and option objects.                     *)
(***************************************************************************)
Root == <<"/", "r">>

pA == join(Root, <<"a">>)

pAB == join(pA, <<"b">>)

fAdotB == join(pAB, <<"a", ".", "b">>)

fAB == join(pA, <<"a", "b">>)

fBdotA == join(Root, <<"b", ".", "a">>)

fDotB == join(Root, <<".", "b">>)

fUpper == join(Root, <<"A", ".", "B">>)

pUpper == join(Root, <<"B">>)

Dir(p) == [path |-> p, kind |-> "dir"]

File(p) == [path |-> p, kind |-> "file"]

\* /r/a/b/a.b, /r/a/ab, /r/b.a
Tree1 == {Dir(pA), Dir(pAB), File(fAdotB), File(fAB), File(fBdotA)}

\* /r/a (empty), /r/b.a
Tree2 == {Dir(pA), File(fBdotA)}

Trees == {Tree1, Tree2}

dirsOf(nodes) == {Root} \cup {n.path : n \in {m \in nodes : m.kind = "dir"}}

\* the failures of the filesystem calls: none, or one call that throws
Failures ==
    {[list |-> {}, stat |-> {}]}
    \cup {[list |-> {d}, stat |-> {}] : d \in {Root, pA}}
    \cup {[list |-> {}, stat |-> {p}] : p \in {fBdotA, pA, fAB}}

NoOpts == [k \in OptionNames |-> Undef]

With(o, k, v) == [o EXCEPT ![k] = v]

One(str) == JArr(<<JStr(str)>>)

Five == JNum(<<"5">>)

TraversalOpts ==
    { NoOpts,
      With(NoOpts, "ignoreDirs", One(<<"a">>)),
      With(With(NoOpts, "allowPaths", One(<<"/", "a", "/", "b">>)), "ignoreDirs", JStr(<<"a">>)),
      With(With(With(NoOpts, "allowPaths", One(<<"a">>)), "ignorePaths", JStr(<<"/", "a">>)),
           "ignorePathsByDefault", JBool(TRUE)),
      With(NoOpts, "onlyFiles", One(<<"a", ".">>)),
      With(With(With(NoOpts, "ignoreExts", One(<<"b">>)), "allowFiles", JStr(<<"a", "b">>)),
           "ignoreFilesByDefault", JNum(<<"1">>)),
      With(With(NoOpts, "allowFiles", One(<<"b">>)), "ignoreFilesByDefault", JBool(TRUE)),
      With(With(NoOpts, "ignorePaths", One(<<"/", "a", "/", "b">>)), "ignoreFilesFirst", One(<<"b">>)),
      With(NoOpts, "ignoreFiles", JArr(<<Five>>)),
      With(NoOpts, "ignoreFiles", JStr(<<"a">>)) }

Defaults == {Undef, JBool(TRUE), JBool(FALSE), JNum(<<"1">>)}

\* the value a category has in the option objects that set it
Canonical ==
    [k \in Categories |->
       CASE k = "onlyFiles" -> One(<<"a", ".">>)
         [] k = "ignoreFilesFirst" -> JArr(<<JStr(<<"a", "b">>), JStr(<<"b">>)>>)
         [] k = "allowFiles" -> JStr(<<"a">>)
         [] k = "ignoreFiles" -> One(<<"/", "A">>)
         [] k = "ignoreExts" -> JArr(<<JStr(<<"b">>), JStr(<<".", "A">>)>>)
         [] k = "allowPaths" -> One(<<"a", "/", "b">>)
         [] k = "ignorePaths" -> JStr(<<"/", "a">>)
         [] OTHER -> One(<<"/", "b">>)]

Setting(set, dflt, v) ==
    [k \in OptionNames |->
       IF k \in set THEN Canonical[k] ELSE IF k = dflt THEN v ELSE Undef]

FileOpts ==
    {Setting(set, "ignoreFilesByDefault", v) :
        set \in SUBSET ((FileItems \ {"ignoreDirs"}) \cup {"ignoreExts"}), v \in Defaults}

DirOpts ==
    {Setting(set, "ignorePathsByDefault", v) :
        set \in SUBSET (PathItems \cup {"ignoreDirs"}), v \in Defaults}

\* option objects with an empty list, a number in a list, an empty string
OddOpts ==
    {With(NoOpts, k, v) : k \in Categories, v \in {JArr(<<>>), JArr(<<Five>>), JStr(<<>>)}}

\* option objects whose list holds a fragment that is empty, or is empty
\* once a filename category has stripped its separator
EmptyFragmentOpts ==
    {With(NoOpts, k, v) :
        k \in Categories,
        v \in {JArr(<<JStr(<<>>), JStr(<<"a">>)>>), JArr(<<JStr(<<"a">>), JStr(<<>>)>>),
               JArr(<<JStr(<<>>)>>), One(<<sep>>)}}

FilterOpts == FileOpts \cup DirOpts \cup OddOpts \cup EmptyFragmentOpts

FilterFiles == {fAdotB, fAB, fBdotA, fDotB, fUpper}

FilterDirs == {Root, pA, pAB, pUpper}

(***************************************************************************)
(* NunjucksShortcode: run(...) and the promise chain it builds.            *)
(***************************************************************************)
RunIds == 1..MaxCalls

JNull == [t |-> "null", s |-> <<>>, l |-> <<>>, b |-> FALSE]

\* an error object of class name with the message text
JErr(name, message) == [t |-> name, s |-> message, l |-> <<>>, b |-> FALSE]

\* a promise: not created, pending, or settled with a value or a reason
NoPromise == [st |-> "none", val |-> Undef]

Pending == [st |-> "pending", val |-> Undef]

Fulfilled(v) == [st |-> "fulfilled", val |-> v]

Rejected(e) == [st |-> "rejected", val |-> e]

\* the constructor: a tag that is not an array becomes an array of one
constructorTags(t) == IF t.t = "array" THEN t.l ELSE <<t>>

\* context.env.filters.safe: the text marked as safe markup
safeFilter(v) == [t |-> "SafeString", s |-> v.s, l |-> <<>>, b |-> FALSE]

\* new NunjucksShortcodeError(`Error with Nunjucks shortcode
\* '${this.tags[0]}': ${e.message}`, null, e)
ShortcodeError(tag, e) ==
    JErr("NunjucksShortcodeError",
         <<"Error with Nunjucks shortcode '">> \o tag.s \o <<"': ">> \o e.s)

\* what the render methods of the base class throw
MustOverride(method) ==
    JErr("NunjucksShortcodeError",
         <<"You must override the '">> \o method \o <<"' method.">>)

\* reading a property of undefined
CannotRead(property) ==
    JErr("TypeError",
         <<"Cannot read properties of undefined (reading '">> \o property \o <<"')">>)

\* the value of this inside a reaction of run(...): both callbacks are
\* function expressions in strict code, and a promise job calls its handler
\* with no receiver
thisInReaction == Undef

\* function (returnValue) { resolve(null, this.safe(returnValue)); }
\* the arguments are evaluated before resolve is called
onFulfilled(this, returnValue) ==
    IF this.t = "undefined"
    THEN [threw |-> TRUE, e |-> CannotRead(<<"safe">>), cb |-> <<>>]
    ELSE [threw |-> FALSE, e |-> Undef,
          cb |-> <<[err |-> JNull, res |-> safeFilter(returnValue)]>>]

\* function (e) { resolve(new NunjucksShortcodeError(... this.tags[0] ...), null); }
onRejected(this, e) ==
    IF this.t = "undefined"
    THEN [threw |-> TRUE, e |-> CannotRead(<<"tags">>), cb |-> <<>>]
    ELSE [threw |-> FALSE, e |-> Undef,
          cb |-> <<[err |-> ShortcodeError(tags[1], e), res |-> JNull]>>]

\* the promise .then(onFulfilled) returns, once the promise p it was called
\* on is settled: a rejection passes through
thenSettles(p, r) ==
    IF p.st = "rejected" THEN p
    ELSE IF r.threw THEN Rejected(r.e) ELSE Fulfilled(Undef)

\* the promise .catch(onRejected) returns, once the promise p it was called
\* on is settled: a fulfilment passes through
catchSettles(p, r) ==
    IF p.st = "fulfilled" THEN p
    ELSE IF r.threw THEN Rejected(r.e) ELSE Fulfilled(Undef)

\* what an overriding render method can do: return (or fulfil with) a text,
\* or throw (or reject with) an error
Outcomes ==
    {Fulfilled(JStr(<<"x">>)), Fulfilled(JStr(<<"<", "b", ">">>)),
     Rejected(JErr("Error", <<"boom">>))}

TagArgs == {JStr(<<"a">>), JArr(<<JStr(<<"b">>), JStr(<<"a">>)>>)}

\* the try block of run(...) without isasync: this is the shortcode, so
\* this.safe and this.tags are read
runSync(outcome) ==
    IF outcome.st = "fulfilled"
    THEN [threw |-> FALSE, val |-> safeFilter(outcome.val)]
    ELSE [threw |-> TRUE, val |-> ShortcodeError(tags[1], outcome.val)]

\* the render method run(...) calls
renderMethod ==
    IF isasync THEN (IF paired THEN <<"renderAsyncPaired">> ELSE <<"renderAsync">>)
    ELSE (IF paired THEN <<"renderPaired">> ELSE <<"render">>)

NotReturned == [threw |-> FALSE, val |-> Undef]

\* run(...args): the completion callback is popped when isasync, the body
\* when paired; this.safe is stored; then either the promise chain is built
\* and undefined is returned, or the render method is called inside try
run ==
    /\ runs < MaxCalls
    /\ runs' = runs + 1
    /\ safe' = "filter"
    /\ \E outcome \in Outcomes :
         LET i == runs + 1
             base == Rejected(MustOverride(renderMethod))
         IN IF isasync
            THEN /\ renderP' = [renderP EXCEPT ![i] = IF overridden THEN Pending ELSE base]
                 /\ thenP' = [thenP EXCEPT ![i] = Pending]
                 /\ catchP' = [catchP EXCEPT ![i] = Pending]
                 /\ reactions' = IF overridden THEN reactions
                                 ELSE Append(reactions, [run |-> i, on |-> "then"])
                 /\ UNCHANGED returned
            ELSE /\ returned' = [returned EXCEPT
                                   ![i] = runSync(IF overridden THEN outcome ELSE base)]
                 /\ UNCHANGED <<renderP, thenP, catchP, reactions>>
    /\ UNCHANGED <<tags, paired, isasync, overridden, resolveCalls, rejections>>
    /\ UNCHANGED <<startPath, absPath, opts, regex, log, results, phase, fsNodes,
                   failList, failStat, stack, inv, pall, jobs, parseState, handed,
                   unhandled, calls, lastCall, order, listed, touched, denied, runLog,
                   prev, cancelRequested>>

\* the promise of an overriding renderAsync / renderAsyncPaired settles and
\* the reaction .then(...) registered on it is queued
settle(i) ==
    /\ renderP[i].st = "pending"
    /\ \E outcome \in Outcomes : renderP' = [renderP EXCEPT ![i] = outcome]
    /\ reactions' = Append(reactions, [run |-> i, on |-> "then"])
    /\ UNCHANGED <<tags, paired, isasync, safe, overridden, runs, thenP, catchP,
                   resolveCalls, rejections, returned>>
    /\ UNCHANGED <<startPath, absPath, opts, regex, log, results, phase, fsNodes,
                   failList, failStat, stack, inv, pall, jobs, parseState, handed,
                   unhandled, calls, lastCall, order, listed, touched, denied, runLog,
                   prev, cancelRequested>>

settleSome == \E i \in RunIds : settle(i)

\* the first job of the queue runs: the handler of .then(...), which queues
\* the reaction of .catch(...), or the handler of .catch(...), behind which
\* nothing is registered
runReaction ==
    /\ reactions # <<>>
    /\ LET i == Head(reactions).run
       IN IF Head(reactions).on = "then"
          THEN LET r == onFulfilled(thisInReaction, renderP[i].val)
               IN /\ thenP' = [thenP EXCEPT ![i] = thenSettles(renderP[i], r)]
                  /\ resolveCalls' =
                       [resolveCalls EXCEPT
                          ![i] = IF renderP[i].st = "fulfilled" THEN @ \o r.cb ELSE @]
                  /\ reactions' = Append(Tail(reactions), [run |-> i, on |-> "catch"])
                  /\ UNCHANGED <<catchP, rejections>>
          ELSE LET r == onRejected(thisInReaction, thenP[i].val)
               IN /\ catchP' = [catchP EXCEPT ![i] = catchSettles(thenP[i], r)]
                  /\ resolveCalls' =
                       [resolveCalls EXCEPT
                          ![i] = IF thenP[i].st = "rejected" THEN @ \o r.cb ELSE @]
                  /\ rejections' =
                       IF catchSettles(thenP[i], r).st = "rejected"
                       THEN rejections \cup {i} ELSE rejections
                  /\ reactions' = Tail(reactions)
                  /\ UNCHANGED thenP
    /\ UNCHANGED <<tags, paired, isasync, safe, overridden, runs, renderP, returned>>
    /\ UNCHANGED <<startPath, absPath, opts, regex, log, results, phase, fsNodes,
                   failList, failStat, stack, inv, pall, jobs, parseState, handed,
                   unhandled, calls, lastCall, order, listed, touched, denied, runLog,
                   prev, cancelRequested>>

TypeOK ==
    /\ phase \in {"new", "ready", "threw"}
    /\ parseState \in {"idle", "sync", "awaiting", "queued", "resolved", "rejected"}
    /\ calls \in 0..MaxCalls

\* no parse() was called yet
NoRun == [done |-> FALSE, handed |-> <<>>, order |-> <<>>, log |-> <<>>]

InitWith(optsDomain, trees, failures) ==
    /\ startPath = Root
    /\ absPath \in {Root, Append(Root, sep)}
    /\ opts \in optsDomain
    /\ regex = [item \in Categories |-> NoRegex]
    /\ log = <<>>
    /\ results = <<>>
    /\ phase = "new"
    /\ fsNodes \in trees
    /\ order = [d \in dirsOf(fsNodes) |-> <<>>]
    /\ \E f \in failures : failList = f.list /\ failStat = f.stat
    /\ stack = <<>>
    /\ inv = [d \in DirPaths |-> "none"]
    /\ pall = [d \in DirPaths |-> [remaining |-> 0, st |-> "none"]]
    /\ jobs = <<>>
    /\ parseState = "idle"
    /\ handed = <<>>
    /\ unhandled = {}
    /\ calls = 0
    /\ lastCall = NoCall
    /\ touched = {} /\ listed = {} /\ denied = {} /\ runLog = 0
    /\ prev = NoRun
    /\ cancelRequested = FALSE

\* no shortcode was constructed
NoShortcode ==
    /\ tags = <<>> /\ paired = FALSE /\ isasync = FALSE /\ overridden = FALSE
    /\ safe = "unset" /\ runs = 0
    /\ renderP = [i \in RunIds |-> NoPromise]
    /\ thenP = [i \in RunIds |-> NoPromise]
    /\ catchP = [i \in RunIds |-> NoPromise]
    /\ resolveCalls = [i \in RunIds |-> <<>>]
    /\ reactions = <<>>
    /\ rejections = {}
    /\ returned = [i \in RunIds |-> NotReturned]

\* the parser over a tree: parse() and the direct calls
Init == InitWith(TraversalOpts, Trees, Failures) /\ NoShortcode

Next ==
    \/ constructor
    \/ parse
    \/ readdirSync
    \/ mapEntry
    \/ awaitAll
    \/ runJob
    \/ requestCancel
    \/ callDoWeProcessFile({fAB})
    \/ callDoWeProcessDir({pAB})
    \/ callFreeformCheckFile({fAB})

Spec == Init /\ [][Next]_vars

\* the decision functions alone, over the option objects that set every
\* combination of categories
InitFilter == InitWith(FilterOpts, {{}}, {[list |-> {}, stat |-> {}]}) /\ NoShortcode

NextFilter ==
    \/ constructor
    \/ callDoWeProcessFile(FilterFiles)
    \/ callDoWeProcessDir(FilterDirs)
    \/ callFreeformCheckFile({fAdotB, fBdotA})

SpecFilter == InitFilter /\ [][NextFilter]_vars

\* a shortcode after new NunjucksShortcode(tags, config, paired, isasync),
\* of the base class or of a subclass with render methods of its own
InitShortcode ==
    /\ InitWith({NoOpts}, {{}}, {[list |-> {}, stat |-> {}]})
    /\ absPath = Root
    /\ \E t \in TagArgs : tags = constructorTags(t)
    /\ paired \in BOOLEAN /\ isasync \in BOOLEAN /\ overridden \in BOOLEAN
    /\ safe = "unset" /\ runs = 0
    /\ renderP = [i \in RunIds |-> NoPromise]
    /\ thenP = [i \in RunIds |-> NoPromise]
    /\ catchP = [i \in RunIds |-> NoPromise]
    /\ resolveCalls = [i \in RunIds |-> <<>>]
    /\ reactions = <<>>
    /\ rejections = {}
    /\ returned = [i \in RunIds |-> NotReturned]

NextShortcode ==
    \/ run
    \/ settleSome
    \/ runReaction

\* the job queue is always drained, and the render promises of the runs
\* under study settle
SpecShortcode ==
    /\ InitShortcode
    /\ [][NextShortcode]_vars
    /\ WF_vars(settleSome)
    /\ WF_vars(runReaction)

(***************************************************************************)
(* What the properties speak of.                                           *)
(***************************************************************************)
Range(seq) == {seq[i] : i \in 1..Len(seq)}

\* the directories a path lies in, nearest last
Ancestors(p) == {Take(p, i - 1) : i \in {j \in 2..Len(p) : p[j] = sep}}

\* the directories strictly between the start path and p
Between(p) == {d \in Ancestors(p) : startPath \in Ancestors(d)}

UnderStart == {n \in fsNodes : startPath \in Ancestors(n.path)}

\* the two decisions, without their log
fileAllowed(f) == doWeProcessFile(f, <<>>).ret

dirAllowed(d) == doWeProcessDir(d, basename(d), <<>>).ret

\* the filesystem answers for p: it can be stat-ed, and so can every
\* directory between the start path and it, and all of them can be listed
Readable(p) ==
    /\ p \notin failStat
    /\ startPath \notin failList
    /\ \A d \in Between(p) : d \notin failStat /\ d \notin failList

\* the files the claims expect parse() to return
ExpectedFiles ==
    {n.path : n \in {m \in UnderStart :
        /\ m.kind = "file"
        /\ Readable(m.path)
        /\ fileAllowed(m.path)
        /\ \A d \in Between(m.path) : dirAllowed(d)}}

\* the records logged since the current parse() began
RunRecords == {log[i] : i \in (runLog + 1)..Len(log)}

\* the filesystem calls of the current parse() that threw
Failed == (listed \cap failList) \cup (touched \cap failStat)

Settled == \A d \in DOMAIN inv : inv[d] \in {"none", "fulfilled", "rejected"}

(***************************************************************************)
(* C1: when the promise of parse() is fulfilled, every _parseDir call of   *)
(* the run has ended, the caller holds the collection as it will stay, and *)
(* the collection holds every accepted file of every allowed subtree.      *)
(***************************************************************************)
ParseJoinsEveryWalk ==
    parseState = "resolved" =>
        /\ Settled
        /\ stack = <<>>
        /\ results = handed
        /\ ExpectedFiles \subseteq Range(handed)

\* parse() is fulfilled after a walk that went two directories deep and
\* accepted a file there
ParseJoinsEveryWalkWitness ==
    /\ parseState = "resolved"
    /\ pAB \in DOMAIN inv /\ inv[pAB] = "fulfilled"
    /\ fAdotB \in Range(handed)

(***************************************************************************)
(* C2: the collection parse() returns is exactly the set of the files      *)
(* under the start path that doWeProcessFile allows and that lie only in   *)
(* directories doWeProcessDir allows (the start directory is not asked).   *)
(***************************************************************************)
ParseReturnsExactlyAccepted ==
    parseState = "resolved" => Range(handed) = ExpectedFiles

\* a run that returned a file, left out a file the file decision denied and
\* left out a file of a denied directory
ParseReturnsExactlyAcceptedWitness ==
    /\ parseState = "resolved"
    /\ failList = {} /\ failStat = {}
    /\ handed # <<>>
    /\ \E n \in UnderStart :
         n.kind = "file" /\ ~fileAllowed(n.path) /\ n.path \notin Range(handed)
    /\ \E n \in UnderStart :
         /\ n.kind = "file" /\ fileAllowed(n.path) /\ n.path \notin Range(handed)
         /\ \E d \in Between(n.path) : ~dirAllowed(d)

(***************************************************************************)
(* C3: nothing below a directory that doWeProcessDir denied in this        *)
(* parse() is listed, stat-ed or evaluated, none of it is in the result    *)
(* collection and none of it is named by a record logged in the run.       *)
(***************************************************************************)
BelowDenied == {n.path : n \in {m \in fsNodes : \E d \in denied : d \in Ancestors(m.path)}}

DeniedIsPruned ==
    /\ denied \cap listed = {}
    /\ \A p \in BelowDenied :
         /\ p \notin touched
         /\ p \notin listed
         /\ p \notin Range(results)
         /\ lastCall.op = "parse" => \A rec \in RunRecords : rec.arg # relOf(p)

\* a finished run that denied a directory which has entries
DeniedIsPrunedWitness ==
    /\ parseState = "resolved"
    /\ lastCall.op = "parse"
    /\ BelowDenied # {}
    /\ results # <<>>

(***************************************************************************)
(* C4: a listing or a stat that fails during parse() does not abort it:    *)
(* parse() is fulfilled, with every accepted file of the other entries,    *)
(* and the log has a record of the failure.  (Stated for the failures      *)
(* below the start directory; the start directory's own listing is left    *)
(* aside.)                                                                 *)
(***************************************************************************)
FailureLogged == \E rec \in RunRecords : rec.func \notin {FileFn, DirFn}

FailureDoesNotAbort ==
    (/\ parseState \in {"resolved", "rejected"}
     /\ lastCall.op = "parse"
     /\ Failed # {}
     /\ startPath \notin failList) =>
        /\ parseState = "resolved"
        /\ ExpectedFiles \subseteq Range(handed)
        /\ FailureLogged

(***************************************************************************)
(* C5: an engine is never built from a rule list that holds a fragment     *)
(* that is not a string: the constructor throws for it, in every category. *)
(***************************************************************************)
HasNonText(v) == v.t = "array" /\ \E i \in 1..Len(v.l) : v.l[i].t # "string"

NonTextIsRejected ==
    phase = "ready" => \A k \in Categories : ~HasNonText(opts[k])

(***************************************************************************)
(* C6: doWeProcessFile returns the outcome of the first applicable rule    *)
(* in the order onlyFiles, ignoreFilesFirst, allowFiles, ignoreFiles,      *)
(* ignoreExts, default (deny only when ignoreFilesByDefault is true).      *)
(***************************************************************************)
Matches(item, str) == regex[item].def /\ ~exec(regex[item], str).null

FileRule(f) ==
    LET base == basename(f)
    IN CASE regex.onlyFiles.def -> Matches("onlyFiles", base)
         [] Matches("ignoreFilesFirst", base) -> FALSE
         [] Matches("allowFiles", base) -> TRUE
         [] Matches("ignoreFiles", base) -> FALSE
         [] Matches("ignoreExts", extname(f)) -> FALSE
         [] OTHER -> opts.ignoreFilesByDefault # JBool(TRUE)

FilePrecedence ==
    lastCall.op = "doWeProcessFile" =>
        LET base == basename(lastCall.file)
        IN /\ lastCall.ret = FileRule(lastCall.file)
           /\ (~regex.onlyFiles.def /\ Matches("ignoreFilesFirst", base)) => ~lastCall.ret
           /\ (/\ ~regex.onlyFiles.def
               /\ ~Matches("ignoreFilesFirst", base)
               /\ Matches("allowFiles", base)) => lastCall.ret

\* a file that ignoreFilesFirst and allowFiles both match was denied
FilePrecedenceWitness ==
    /\ lastCall.op = "doWeProcessFile"
    /\ ~regex.onlyFiles.def
    /\ Matches("ignoreFilesFirst", basename(lastCall.file))
    /\ Matches("allowFiles", basename(lastCall.file))
    /\ ~lastCall.ret

(***************************************************************************)
(* C7, as claimed: whenever the onlyFiles option is set, doWeProcessFile   *)
(* denies every file whose basename no onlyFiles fragment matches.         *)
(***************************************************************************)
\* the fragment, with one leading separator stripped, is a case-insensitive
\* prefix of str
FragmentMatches(fr, str) ==
    /\ fr.t = "string"
    /\ LET n == fileFragment(fr).s
       IN /\ Len(n) <= Len(str)
          /\ \A i \in 1..Len(n) : Fold(n[i]) = Fold(str[i])

NoOnlyFragmentMatches(str) ==
    \A i \in 1..Len(makeArray(opts.onlyFiles).l) :
        ~FragmentMatches(makeArray(opts.onlyFiles).l[i], str)

OnlyFilesSetIsExclusive ==
    (/\ lastCall.op = "doWeProcessFile"
     /\ opts.onlyFiles.t # "undefined"
     /\ NoOnlyFragmentMatches(basename(lastCall.file))) => ~lastCall.ret

(***************************************************************************)
(* C7, amended: whenever a matcher was compiled for onlyFiles (the option  *)
(* holds at least one fragment that is not empty once its leading          *)
(* separator is stripped), doWeProcessFile denies every file whose         *)
(* basename no onlyFiles fragment matches, whatever the other categories   *)
(* and ignoreFilesByDefault contain.                                       *)
(***************************************************************************)
OnlyFilesCompiledIsExclusive ==
    (/\ lastCall.op = "doWeProcessFile"
     /\ regex.onlyFiles.def
     /\ NoOnlyFragmentMatches(basename(lastCall.file))) => ~lastCall.ret

\* a file allowFiles matches and onlyFiles does not was denied
OnlyFilesCompiledIsExclusiveWitness ==
    /\ lastCall.op = "doWeProcessFile"
    /\ regex.onlyFiles.def
    /\ NoOnlyFragmentMatches(basename(lastCall.file))
    /\ Matches("allowFiles", basename(lastCall.file))
    /\ ~lastCall.ret

(***************************************************************************)
(* C8: doWeProcessDir returns the outcome of the first applicable rule in  *)
(* the order allowPaths (on the root-relative path), ignorePaths (on the   *)
(* root-relative path), ignoreDirs (on the entry name), default (deny only *)
(* when ignorePathsByDefault is true); the path tested begins with the     *)
(* separator.                                                              *)
(***************************************************************************)
DirRule(f, entry) ==
    CASE Matches("allowPaths", relOf(f)) -> TRUE
      [] Matches("ignorePaths", relOf(f)) -> FALSE
      [] Matches("ignoreDirs", entry) -> FALSE
      [] OTHER -> opts.ignorePathsByDefault # JBool(TRUE)

\* the path the last doWeProcessDir call tested, as it logged it
TestedPath == log[Len(log) - 1].arg

DirPrecedence ==
    lastCall.op = "doWeProcessDir" =>
        /\ lastCall.ret = DirRule(lastCall.file, lastCall.entry)
        /\ log[Len(log) - 1].tpl = "Processing directory: "
        /\ TestedPath # <<>> /\ TestedPath[1] = sep

\* a directory that allowPaths, ignorePaths and ignoreDirs all match was
\* allowed
DirPrecedenceWitness ==
    /\ lastCall.op = "doWeProcessDir"
    /\ Matches("allowPaths", relOf(lastCall.file))
    /\ Matches("ignorePaths", relOf(lastCall.file))
    /\ Matches("ignoreDirs", lastCall.entry)
    /\ lastCall.ret

(***************************************************************************)
(* C9, as claimed: in every parse() every directory under the start path   *)
(* whose root-relative path allowPaths matches is walked and its accepted  *)
(* files are in the result, whatever the other rules say about it or about *)
(* its ancestors.  (Stated for the runs in which no filesystem call        *)
(* fails.)                                                                 *)
(***************************************************************************)
DirsUnderStart == {n.path : n \in {m \in UnderStart : m.kind = "dir"}}

FilesIn(d) == {n.path : n \in {m \in fsNodes : m.kind = "file" /\ parentOf(m.path) = d}}

AllowPathsAlwaysProcessed ==
    (parseState = "resolved" /\ failList = {} /\ failStat = {}) =>
        \A d \in DirsUnderStart :
            Matches("allowPaths", relOf(d)) =>
                /\ d \in listed
                /\ \A f \in FilesIn(d) : fileAllowed(f) => f \in Range(handed)

(***************************************************************************)
(* C9, amended: a directory under the start path whose root-relative path  *)
(* allowPaths matches is allowed whatever ignorePaths, ignoreDirs and      *)
(* ignorePathsByDefault say about it; it is walked and its accepted files  *)
(* are in the result provided every directory between the start path and   *)
(* it is itself allowed and the filesystem lets the walk reach it.         *)
(***************************************************************************)
AllowPathsProcessedWhenReached ==
    parseState = "resolved" =>
        \A d \in DirsUnderStart :
            (/\ Matches("allowPaths", relOf(d))
             /\ Readable(d)
             /\ \A a \in Between(d) : dirAllowed(a)) =>
                /\ d \in listed
                /\ d \notin denied
                /\ d \notin failList =>
                     \A f \in FilesIn(d) :
                         (f \notin failStat /\ fileAllowed(f)) => f \in Range(handed)

\* a directory that allowPaths and ignorePaths both match was walked, with a
\* file of it returned
AllowPathsProcessedWhenReachedWitness ==
    /\ parseState = "resolved"
    /\ \E d \in DirsUnderStart :
         /\ Matches("allowPaths", relOf(d))
         /\ Matches("ignorePaths", relOf(d))
         /\ d \in listed
         /\ FilesIn(d) \cap Range(handed) # {}

(***************************************************************************)
(* C10: freeformCheckFile(path) returns a boolean and never throws: false  *)
(* without asking the file decision when the directory decision denies the *)
(* parent directory, and else the file decision.                           *)
(***************************************************************************)
FreeformReturnsDecision ==
    lastCall.op = "freeformCheckFile" =>
        /\ ~lastCall.threw
        /\ lastCall.ret = (dirAllowed(parentOf(lastCall.file)) /\ fileAllowed(lastCall.file))
        /\ ~dirAllowed(parentOf(lastCall.file)) => ~lastCall.fileEvaluated

(***************************************************************************)
(* C11, as claimed: after a parse() is fulfilled the result collection     *)
(* holds only the files accepted in that run, each once, and the log holds *)
(* only the records emitted during that run.                               *)
(***************************************************************************)
\* the records the log held when the current parse() was called
RecordsBefore == SubSeq(log, 1, runLog)

\* the records logged since, in order
RecordsOfRun == SubSeq(log, runLog + 1, Len(log))

OnlyThisRun ==
    /\ Range(handed) = ExpectedFiles
    /\ Len(handed) = Cardinality(ExpectedFiles)

ParseResetsResultsAndLog ==
    (parseState = "resolved" /\ lastCall.op = "parse") =>
        /\ OnlyThisRun
        /\ log = RecordsOfRun

(***************************************************************************)
(* C11, amended: each parse() resets the result collection only: after it  *)
(* is fulfilled the collection holds exactly the files accepted in that    *)
(* run, each once, while the log still holds, in place, every record it    *)
(* held when parse() was called, followed by the records of the run.       *)
(***************************************************************************)
ParseResetsResultsOnly ==
    (parseState = "resolved" /\ lastCall.op = "parse") =>
        /\ OnlyThisRun
        /\ RecordsBefore = prev.log
        /\ Len(log) >= runLog

\* a second parse() was fulfilled with a file, after a first one that was
\* fulfilled with a file and logged records
ParseResetsResultsOnlyWitness ==
    /\ parseState = "resolved" /\ lastCall.op = "parse"
    /\ prev.done /\ prev.handed # <<>> /\ prev.log # <<>>
    /\ handed # <<>>
    /\ Len(log) > runLog

(***************************************************************************)
(* C12: every doWeProcessFile or doWeProcessDir evaluation that returns    *)
(* leaves as the last record of the log a decision record: one that names  *)
(* the category that decided, or that states the allow or deny by default, *)
(* and that agrees with the value returned.                                *)
(***************************************************************************)
AllowRecords ==
    {"   => only file first via: ", "   => allow file via: ", "   => allow file by default",
     "   => allow path via: ", "   => allow dir by default"}

DenyRecords ==
    {"   => ignore file first via: ", "   => ignore file via: ",
     "   => ignore file extension via: ", "   => ignore file by default",
     "   => ignore path via: ", "   => ignore dir via: ", "   => ignore dir by default"}

LastRecord == log[Len(log)]

EveryDecisionIsLogged ==
    lastCall.op \in {"doWeProcessFile", "doWeProcessDir"} =>
        /\ Len(log) >= 2
        /\ LastRecord.tpl \in (IF lastCall.ret THEN AllowRecords ELSE DenyRecords)

(***************************************************************************)
(* C13: for every category whose list holds text, the compiled matcher     *)
(* accepts a string if and only if a fragment of the list, normalized the  *)
(* way of its category, is a case-insensitive literal prefix of the        *)
(* string; a category with an empty list has no matcher and never matches. *)
(***************************************************************************)
\* the list of a category: empty when the option is absent
Fragments(k) == IF Truthy(opts[k]) THEN makeArray(opts[k]).l ELSE <<>>

AllText(k) == \A i \in 1..Len(Fragments(k)) : Fragments(k)[i].t = "string"

\* the normalization the claim gives each kind of category
Normalized(k, fr) ==
    IF k = "ignoreExts" THEN (IF fr # <<>> /\ fr[1] = "." THEN fr ELSE <<".">> \o fr)
    ELSE IF k \in PathItems THEN (IF fr # <<>> /\ fr[1] = sep THEN fr ELSE <<sep>> \o fr)
    ELSE (IF fr # <<>> /\ fr[1] = sep THEN Tail(fr) ELSE fr)

LiteralPrefix(n, str) ==
    /\ Len(n) <= Len(str)
    /\ \A i \in 1..Len(n) : Fold(n[i]) = Fold(str[i])

\* the strings the matchers are asked about: basenames, extensions, paths
TestedStrings ==
    {basename(f) : f \in FilterFiles} \cup {extname(f) : f \in FilterFiles}
    \cup {relOf(d) : d \in FilterDirs} \cup {basename(d) : d \in FilterDirs}

SomeFragmentIsPrefix(k, str) ==
    \E i \in 1..Len(Fragments(k)) : LiteralPrefix(Normalized(k, Fragments(k)[i].s), str)

MatcherIsLiteralPrefix ==
    phase = "ready" =>
        \A k \in Categories :
            /\ Fragments(k) = <<>> => ~regex[k].def
            /\ AllText(k) =>
                 \A str \in TestedStrings : Matches(k, str) <=> SomeFragmentIsPrefix(k, str)

(***************************************************************************)
(* C14: in one parse() every entry is evaluated at most once and no path   *)
(* is in the result collection twice, at any moment of the run; when the   *)
(* run has ended its log holds every record of every evaluation made, and  *)
(* when parse() is fulfilled every accepted file is in the collection      *)
(* once.                                                                   *)
(***************************************************************************)
\* the records of the run that open an evaluation of p
OpensAt(rel) ==
    {i \in (runLog + 1)..Len(log) :
        /\ log[i].tpl \in {"Processing file: ", "Processing directory: "}
        /\ log[i].arg = rel}

Evaluations(p) == OpensAt(relOf(p))

\* the paths the run has evaluated: stat-ed with success
Evaluated == touched \ failStat

\* the records one evaluation of p emits
RecordsOf(p) ==
    IF kindOf(p) = "file" THEN doWeProcessFile(p, <<>>).log
    ELSE doWeProcessDir(p, basename(p), <<>>).log

\* the promise of parse() is settled
RunEnded == parseState \in {"resolved", "rejected"}

\* the sum of the lengths of the sequences recs gives the paths of S
RECURSIVE RecordCount(_, _)
RecordCount(recs, S) ==
    IF S = {} THEN 0
    ELSE LET p == CHOOSE x \in S : TRUE
         IN Len(recs[p]) + RecordCount(recs, S \ {p})

Occurrences(seq, x) == Cardinality({i \in 1..Len(seq) : seq[i] = x})

\* the log of the run holds the records recs gives each evaluated path, in
\* one piece where its evaluation opens, and no others
HoldsAt(i, rec) == SubSeq(log, i, i + Len(rec) - 1) = rec

NoRecordLost(recs) ==
    /\ Len(log) - runLog = RecordCount(recs, Evaluated)
    /\ \A p \in Evaluated : \A i \in Evaluations(p) : HoldsAt(i, recs[p])

EachEntryOnce ==
    lastCall.op = "parse" =>
        /\ \A n \in fsNodes :
             Cardinality(Evaluations(n.path)) = (IF n.path \in Evaluated THEN 1 ELSE 0)
        /\ \A n \in fsNodes : Occurrences(results, n.path) <= 1
        /\ RunEnded => NoRecordLost([p \in Evaluated |-> RecordsOf(p)])
        /\ parseState = "resolved" =>
             \A f \in ExpectedFiles : Occurrences(handed, f) = 1

\* a fulfilled parse() that evaluated two entries of one directory and two
\* of another, and returned three files
EachEntryOnceWitness ==
    /\ parseState = "resolved" /\ lastCall.op = "parse"
    /\ {pA, fBdotA, pAB, fAB} \subseteq Evaluated
    /\ Len(handed) = 3

(***************************************************************************)
(* C15: every decision a parse() run took is the decision the path, the    *)
(* compiled matchers and the default policy give on their own, whatever    *)
(* was evaluated before it; and two fulfilled parse() runs return the same *)
(* set of paths whatever the orders their listings came in.                *)
(***************************************************************************)
DecisionOf(n) ==
    IF n.kind = "file" THEN n.path \in Range(results) ELSE n.path \notin denied

AloneDecisionOf(n) ==
    IF n.kind = "file" THEN fileAllowed(n.path) ELSE dirAllowed(n.path)

OrderIndependent ==
    (lastCall.op = "parse" /\ RunEnded) =>
        /\ \A n \in fsNodes : n.path \in Evaluated => DecisionOf(n) = AloneDecisionOf(n)
        /\ (parseState = "resolved" /\ prev.done) => Range(handed) = Range(prev.handed)

\* two fulfilled runs whose listings came in different orders returned the
\* same files in different sequence
OrderIndependentWitness ==
    /\ lastCall.op = "parse" /\ parseState = "resolved" /\ prev.done
    /\ prev.order # order
    /\ Len(handed) >= 2
    /\ handed # prev.handed

(***************************************************************************)
(* C16: a second parse() on the same instance, tree and configuration,     *)
(* after a first one that was fulfilled, is fulfilled too, with the same   *)
(* set of paths and as many of them: nothing is left over from the first   *)
(* run and nothing it found is missing.                                    *)
(***************************************************************************)
ParseTwiceSameSet ==
    (lastCall.op = "parse" /\ prev.done /\ parseState \in {"resolved", "rejected"}) =>
        /\ parseState = "resolved"
        /\ Range(handed) = Range(prev.handed)
        /\ Len(handed) = Len(prev.handed)

\* the second of two runs that both returned the three files of the tree
ParseTwiceSameSetWitness ==
    /\ lastCall.op = "parse" /\ prev.done /\ parseState = "resolved"
    /\ Len(prev.handed) = 3
    /\ Range(handed) = {fAdotB, fAB, fBdotA}

(***************************************************************************)
(* C17: the log is append-only: no step of parse(), doWeProcessFile,       *)
(* doWeProcessDir or freeformCheckFile on an instance shortens the log or  *)
(* changes or moves a record that is in it.                                *)
(***************************************************************************)
LogIsAppendOnly ==
    [][/\ Len(log') >= Len(log)
       /\ SubSeq(log', 1, Len(log)) = log]_vars

\* the log holds the records of a fulfilled parse() and, after them, those
\* of a direct doWeProcessDir call
LogIsAppendOnlyWitness ==
    /\ parseState = "resolved" /\ lastCall.op = "doWeProcessDir"
    /\ runLog < Len(log) - 2
    /\ log[Len(log) - 1].tpl = "Processing directory: "

(***************************************************************************)
(* C18: once the constructor has returned, no step of parse(), _parseDir,  *)
(* doWeProcessFile, doWeProcessDir, freeformCheckFile or _logMsg changes a *)
(* compiled matcher (its pattern or its lastIndex), an option value or a   *)
(* path of the instance: only the result collection and the log change.    *)
(***************************************************************************)
ConfigIsReadOnly ==
    [][phase = "ready" =>
         /\ regex' = regex
         /\ opts' = opts
         /\ startPath' = startPath
         /\ absPath' = absPath]_vars

\* after a parse() that returned files, a direct call asked a matcher that
\* had matched during the walk, and it matched again
ConfigIsReadOnlyWitness ==
    /\ parseState = "resolved" /\ handed # <<>>
    /\ lastCall.op = "doWeProcessFile"
    /\ regex.ignoreFiles.def
    /\ Matches("ignoreFiles", basename(lastCall.file))
    /\ ~lastCall.ret
    /\ opts.ignoreFiles.t = "array"

(***************************************************************************)
(* C19: a parse() the caller asked to stop while it was pending ends with  *)
(* an outcome of its own, aborted, that is neither fulfilled nor rejected  *)
(* and carries a part of the full result.  (Stated for the runs in which   *)
(* no filesystem call failed.)                                             *)
(***************************************************************************)
CancellationIsHonoured ==
    (/\ cancelRequested
     /\ lastCall.op = "parse"
     /\ Failed = {}
     /\ parseState \notin {"sync", "awaiting", "queued"}) =>
        /\ parseState = "aborted"
        /\ Range(handed) \subseteq ExpectedFiles

(***************************************************************************)
(* C20: a parse() in which a listing or a stat failed, at any depth, is    *)
(* rejected: it is never fulfilled with a result collection.               *)
(***************************************************************************)
FailureRejectsParse ==
    (/\ lastCall.op = "parse"
     /\ Failed # {}
     /\ parseState \in {"resolved", "rejected"}) => parseState = "rejected"

(***************************************************************************)
(* C21: with isasync set, every run(...) calls its completion callback     *)
(* exactly once after the promise of renderAsync / renderAsyncPaired has   *)
(* settled, paired or not: with (null, safe(value)) when it fulfilled with *)
(* value, with (a NunjucksShortcodeError naming the first tag, null) when  *)
(* it rejected; the callback is never called twice.                        *)
(***************************************************************************)
RenderSettled(i) == isasync /\ renderP[i].st \in {"fulfilled", "rejected"}

\* the one call of the callback the run i owes
CallbackOf(i) ==
    IF renderP[i].st = "fulfilled"
    THEN [err |-> JNull, res |-> safeFilter(renderP[i].val)]
    ELSE [err |-> ShortcodeError(tags[1], renderP[i].val), res |-> JNull]

CallbackExactlyOnce ==
    /\ [](\A i \in RunIds : Len(resolveCalls[i]) <= 1)
    /\ \A i \in RunIds : RenderSettled(i) ~> (resolveCalls[i] = <<CallbackOf(i)>>)

====
